---- MODULE Spec2Model ----
(***************************************************************************)
(* Model of the minimal SGX enclave of trustauthority-client-for-go:       *)
(*   Enclave.cpp  enclave_create_pubkey, enclave_create_report (trusted)   *)
(*   utils.cpp    get_public_key, free_public_key (untrusted helper)       *)
(* Byte arrays are sequences over 0..255, indexed from 1.  The platform    *)
(* primitives (key generation, SHA-256, report generation, malloc,         *)
(* memcpy_s) are black boxes whose outcome is an input of the call.        *)
(***************************************************************************)
EXTENDS Integers, Sequences, FiniteSets, TLC

\* ---------------------------------------------------------------- bounds
\* number of distinct key pairs the generation primitive may produce
NumKeys == 2
\* largest nonce length the callers supply
MaxNonceSize == 1
\* number of entry-point calls in one enclave lifetime
MaxCalls == 3
\* number of callers that enter the enclave concurrently
NumThreads == 2
\* bytes of the modulus: the length N_SIZE_IN_BYTES of the SDK header (384),
\* scaled down; it stays larger than E_SIZE_IN_BYTES
N_SIZE_IN_BYTES == 5

\* ------------------------------------------------------ program constants
E_SIZE_IN_BYTES == 4
\* sizeof(msg_hash), which is also the size of sgx_report_data_t.d
REPORT_DATA_SIZE == 64
\* 2^16: a uint32_t is two halves of this range
HALF_WORD == 65536
\* sizeof(sgx_sha256_hash_t)
SHA256_HASH_SIZE == 32
SGX_SUCCESS == 0
SGX_ERROR_UNEXPECTED == 1

\* failure codes of the platform primitives: SGX_ERROR_UNEXPECTED,
\* SGX_ERROR_OUT_OF_MEMORY
PrimitiveFailCodes == {1, 3}

Zeros(len) == [i \in 1..len |-> 0]

\* the little-endian bytes of the word 0x10001
ExponentWord == <<1, 0, 1, 0>>

\* rsa_params_t: the modulus n, the public exponent e, and the private
\* material (d, p, q, dmp1, dmq1, iqmp), kept as the one field d.
ZeroKey == [n |-> Zeros(N_SIZE_IN_BYTES), e |-> Zeros(E_SIZE_IN_BYTES), d |-> 0]

\* the key pair number k as the generation primitive writes it
ModulusOf(k) == [i \in 1..N_SIZE_IN_BYTES |-> (k * 16 + i) % 256]

KeyIds == 1..NumKeys

\* outcomes of one invocation of sgx_create_rsa_key_pair
GenOutcomes ==
    [ok : {TRUE}, k : KeyIds, code : {SGX_SUCCESS}]
      \cup [ok : {FALSE}, k : {0}, code : PrimitiveFailCodes]

\* key->e[0] = 0x10001 : a store to the first word of the exponent array
SetExponentWord(rec) ==
    [rec EXCEPT !.e = [i \in 1..E_SIZE_IN_BYTES |->
                          IF i <= Len(ExponentWord) THEN ExponentWord[i] ELSE rec.e[i]]]

\* sgx_create_rsa_key_pair(N_SIZE_IN_BYTES, E_SIZE_IN_BYTES, n, d, e, ...):
\* reads the exponent from e; on success writes the generated n, d (and
\* CRT parameters) and the exponent back; on failure leaves the buffers.
sgx_create_rsa_key_pair(rec, gen) ==
    IF gen.ok
    THEN [status |-> SGX_SUCCESS,
          rec |-> [n |-> ModulusOf(gen.k), e |-> rec.e, d |-> gen.k]]
    ELSE [status |-> gen.code, rec |-> rec]

\* generation attempted whatever the flag says
NeedGenerate_always(created) == TRUE

\* if (!key_pair_created)
NeedGenerate(created) == ~created

\* the two copy loops: key->n[i] = g_rsa_key.n[i], key->e[i] = g_rsa_key.e[i].
\* The loops count bytes over arrays of words, so they also run over the
\* fields that follow; the fields n and e of the output do not depend on it.
CopyOut(key, g) ==
    [key EXCEPT !.n = [i \in 1..N_SIZE_IN_BYTES |-> g.n[i]],
                !.e = [i \in 1..E_SIZE_IN_BYTES |-> g.e[i]]]

\* the exponent store into the caller's record at the top of the function
StoreKeyExponent(key) == SetExponentWord(key)

\* the exponent store into the cached record at the top of the function
StoreCacheExponent(g) == SetExponentWord(g)

\* every generation failure reported as the one unexpected-error code
GenFailureStatus_collapsed(status) == SGX_ERROR_UNEXPECTED

\* the status returned when generation fails
GenFailureStatus(status) == status

\* the flag left unset after a successful generation
MarkCreated_never == FALSE

\* key_pair_created = true, after a successful generation
MarkCreated == TRUE

\* enclave_create_pubkey(key), run to completion.  g, created: the cache
\* before the call; key: the caller's record before the call; gen: what the
\* generation primitive does if it is invoked.
enclave_create_pubkey(g, created, key, gen) ==
    LET key1 == StoreKeyExponent(key)
        g1 == StoreCacheExponent(g)
    IN  IF NeedGenerate(created)
        THEN LET r == sgx_create_rsa_key_pair(g1, gen)
             IN  IF r.status # SGX_SUCCESS
                 THEN [g |-> r.rec, created |-> created, key |-> key1,
                       status |-> GenFailureStatus(r.status),
                       gen_calls |-> 1, gen_ok |-> 0]
                 ELSE [g |-> r.rec, created |-> MarkCreated, key |-> CopyOut(key1, r.rec),
                       status |-> SGX_SUCCESS, gen_calls |-> 1, gen_ok |-> 1]
        ELSE [g |-> g1, created |-> created, key |-> CopyOut(key1, g1),
              status |-> SGX_SUCCESS, gen_calls |-> 0, gen_ok |-> 0]

\* ------------------------------------------------------------- memory
\* a pointer to bytes: NULL, or the bytes it points to
NullPtr == [null |-> TRUE, bytes |-> <<>>]
Ptr(bytes) == [null |-> FALSE, bytes |-> bytes]

\* what an allocation holds before it is written: every byte the same
\* indeterminate value
Garbage == {170, 85}

\* malloc(size): NULL on failure, else size indeterminate bytes
malloc(size, ok, fill) ==
    IF ok THEN Ptr([i \in 1..size |-> fill]) ELSE NullPtr

\* the errno memcpy_s(dst, destsz, src, count) returns for a non-null dst:
\* 0 for an empty copy, EINVAL for a null source, ERANGE when the
\* destination is smaller than the count
memcpy_s_err(destsz, srcIsNull, count) ==
    IF count = 0 THEN 0
    ELSE IF srcIsNull THEN 22
    ELSE IF destsz < count THEN 34
    ELSE 0

\* memcpy_s(buf + off, destsz, src, count) on the bytes of one allocation:
\* on success count bytes of src land at off; on a constraint violation the
\* destsz bytes at off are zeroed and nothing is copied.  Bytes addressed
\* past the end of the allocation are not part of buf; overrun tells that
\* the call wrote such bytes.
memcpy_s(buf, off, destsz, src, count) ==
    LET err == memcpy_s_err(destsz, src.null, count)
    IN  [err |-> err,
         overrun |-> count # 0 /\ off + (IF err # 0 THEN destsz ELSE count) > Len(buf),
         buf |-> IF count = 0 THEN buf
                 ELSE IF err # 0
                 THEN [i \in 1..Len(buf) |->
                          IF i > off /\ i <= off + destsz THEN 0 ELSE buf[i]]
                 ELSE [i \in 1..Len(buf) |->
                          IF i > off /\ i <= off + count THEN src.bytes[i - off] ELSE buf[i]]]

\* ------------------------------------------------------- report creation
\* SHA-256 as an injective function of the message: the digest of a message
\* is represented by the message itself
SHA256(msg) == msg

\* uint8_t msg_hash[64] = {0} and sgx_report_data_t report_data = {0}: the
\* first SHA256_HASH_SIZE bytes (the digest) and the remaining bytes
ZeroReportData ==
    [digest |-> Zeros(SHA256_HASH_SIZE),
     rest |-> Zeros(REPORT_DATA_SIZE - SHA256_HASH_SIZE)]

\* uint32_t values as two 16-bit halves, value = hi * 2^16 + lo
U32Of(x) == [hi |-> x \div HALF_WORD, lo |-> x % HALF_WORD]
U32Int(u) == u.hi * HALF_WORD + u.lo
\* unsigned 32-bit addition, wrapping modulo 2^32
U32Add(a, b) ==
    LET lo == a.lo + b.lo
        hi == a.hi + b.hi + (lo \div HALF_WORD)
    IN  [hi |-> hi % HALF_WORD, lo |-> lo % HALF_WORD]

\* the carry out of bit 31 that U32Add drops
U32Carry(a, b) == a.hi + b.hi + ((a.lo + b.lo) \div HALF_WORD) >= HALF_WORD
\* the largest uint32_t
U32Max == [hi |-> HALF_WORD - 1, lo |-> HALF_WORD - 1]
\* a uint32_t used as a byte count (size_t): every count of HALF_WORD or more
\* reaches past the end of every buffer here and is kept as HALF_WORD
ByteCount(u) == IF u.hi = 0 THEN u.lo ELSE HALF_WORD

\* const uint32_t size = nonce_size + E_SIZE_IN_BYTES + N_SIZE_IN_BYTES
ScratchSize(nonce_size) ==
    U32Add(U32Add(nonce_size, U32Of(E_SIZE_IN_BYTES)), U32Of(N_SIZE_IN_BYTES))

\* the sum that line computes does not fit 32 bits
SizeWraps(nonce_size) ==
    \/ U32Carry(nonce_size, U32Of(E_SIZE_IN_BYTES))
    \/ U32Carry(U32Add(nonce_size, U32Of(E_SIZE_IN_BYTES)), U32Of(N_SIZE_IN_BYTES))

\* sgx_sha256_msg(pdata, size, &msg_hash): on success the digest of the
\* first size bytes of pdata fills the first SHA256_HASH_SIZE bytes
sgx_sha256_msg(pdata, size, msg_hash, hash) ==
    IF hash = SGX_SUCCESS
    THEN [status |-> SGX_SUCCESS,
          msg_hash |-> [msg_hash EXCEPT !.digest = SHA256(SubSeq(pdata, 1, size))]]
    ELSE [status |-> hash, msg_hash |-> msg_hash]

\* sgx_create_report(p_qe3_target, &report_data, p_report): on success the
\* report carries the report data; on failure the output is left alone
sgx_create_report(target, report_data, p_report, rep) ==
    IF rep = SGX_SUCCESS
    THEN [status |-> SGX_SUCCESS,
          p_report |-> [filled |-> TRUE, target |-> target, report_data |-> report_data]]
    ELSE [status |-> rep, p_report |-> p_report]

\* an allocation failure reported as an error
AllocFailStatus_error == SGX_ERROR_UNEXPECTED

\* the status returned when the scratch allocation fails (status as initialised)
AllocFailStatus == SGX_SUCCESS

\* the status in force at a goto CLEANUP taken after a failed copy into pdata
CopyFailStatus(status) == status

\* the exponent bytes taken from the start of the modulus
ExponentSource_modulus(g) == Ptr(SubSeq(g.n, 1, E_SIZE_IN_BYTES))
\* the exponent written at the start of the scratch buffer, over the nonce
ExponentOffset_zero(nonce_size) == 0

\* the bytes copied after the nonce: exponent at nonce_size, modulus after it
ExponentSource(g) == Ptr(g.e)
ModulusSource(g) == Ptr(g.n)
ExponentOffset(nonce_size) == nonce_size
ModulusOffset(nonce_size) == nonce_size + E_SIZE_IN_BYTES

\* what a call that ended before hashing reports
NoHash == [hashed |-> FALSE, msg |-> <<>>, reported |-> FALSE,
           report_data |-> ZeroReportData]

\* the scratch buffer kept allocated on the way out
Cleanup_leak(steps) == steps

\* CLEANUP: free(pdata), then return status
Cleanup(steps) == steps \o <<"free">>

\* every hash failure reported as the one unexpected-error code
HashFailStatus_collapsed(status) == SGX_ERROR_UNEXPECTED

\* the status in force at the goto CLEANUP taken after a failed hash
HashFailStatus(status) == status

\* enclave_create_report(p_qe3_target, nonce, nonce_size, p_report), run to
\* completion against the cached key g.  alloc, hash, rep: the outcomes of
\* malloc, sgx_sha256_msg and sgx_create_report if they are invoked.
\* steps lists the operations performed, in order; copy_err is the errno of
\* the copy into pdata that failed, 0 if none did; overrun tells that a copy
\* wrote past the end of pdata.
enclave_create_report(g, target, nonce, nonce_size, p_report, alloc, fill, hash, rep) ==
    LET size == U32Int(ScratchSize(nonce_size))
        nlen == ByteCount(nonce_size)
        pdata == malloc(size, alloc, fill)
    IN  IF pdata.null
        THEN [status |-> AllocFailStatus, p_report |-> p_report, copy_err |-> 0,
              overrun |-> FALSE,
              steps |-> <<"malloc">>] @@ NoHash
        ELSE
        LET c1 == memcpy_s(pdata.bytes, 0, nlen, nonce, nlen)
        IN  IF c1.err # 0
            THEN [status |-> CopyFailStatus(SGX_SUCCESS), p_report |-> p_report,
                  copy_err |-> c1.err, overrun |-> c1.overrun,
                  steps |-> Cleanup(<<"malloc", "copy_nonce">>)] @@ NoHash
            ELSE
        LET c2 == memcpy_s(c1.buf, ExponentOffset(nlen), E_SIZE_IN_BYTES,
                           ExponentSource(g), E_SIZE_IN_BYTES)
        IN  IF c2.err # 0
            THEN [status |-> CopyFailStatus(SGX_SUCCESS), p_report |-> p_report,
                  copy_err |-> c2.err, overrun |-> c1.overrun \/ c2.overrun,
                  steps |-> Cleanup(<<"malloc", "copy_nonce", "copy_e">>)] @@ NoHash
            ELSE
        LET c3 == memcpy_s(c2.buf, ModulusOffset(nlen), N_SIZE_IN_BYTES,
                           ModulusSource(g), N_SIZE_IN_BYTES)
        IN  IF c3.err # 0
            THEN [status |-> CopyFailStatus(SGX_SUCCESS), p_report |-> p_report,
                  copy_err |-> c3.err,
                  overrun |-> c1.overrun \/ c2.overrun \/ c3.overrun,
                  steps |-> Cleanup(<<"malloc", "copy_nonce", "copy_e", "copy_n">>)]
                 @@ NoHash
            ELSE
        LET h == sgx_sha256_msg(c3.buf, size, ZeroReportData, hash)
            copied == <<"malloc", "copy_nonce", "copy_e", "copy_n", "hash">>
            over == c1.overrun \/ c2.overrun \/ c3.overrun
        IN  IF h.status # SGX_SUCCESS
            THEN [status |-> HashFailStatus(h.status), p_report |-> p_report,
                  copy_err |-> 0, overrun |-> over, steps |-> Cleanup(copied),
                  hashed |-> TRUE, msg |-> SubSeq(c3.buf, 1, size), reported |-> FALSE,
                  report_data |-> ZeroReportData]
            ELSE
        LET err == memcpy_s_err(REPORT_DATA_SIZE, FALSE, REPORT_DATA_SIZE)
            report_data == h.msg_hash
        IN  IF err # 0
            THEN [status |-> SGX_ERROR_UNEXPECTED, p_report |-> p_report,
                  copy_err |-> 0, overrun |-> over,
                  steps |-> Cleanup(copied \o <<"fill">>),
                  hashed |-> TRUE, msg |-> SubSeq(c3.buf, 1, size), reported |-> FALSE,
                  report_data |-> ZeroReportData]
            ELSE
        LET r == sgx_create_report(target, report_data, p_report, rep)
        IN  [status |-> r.status, p_report |-> r.p_report,
             copy_err |-> 0, overrun |-> over,
             steps |-> Cleanup(copied \o <<"fill", "report">>),
             hashed |-> TRUE, msg |-> SubSeq(c3.buf, 1, size), reported |-> TRUE,
             report_data |-> report_data]

\* ------------------------------------------------ untrusted key helper
\* outcomes of the boundary call itself: SGX_SUCCESS, or the enclave was
\* not entered (SGX_ERROR_ENCLAVE_LOST)
EcallOutcomes == {SGX_SUCCESS, 8198}

\* the record the boundary call hands to the trusted function for an
\* output parameter
BridgeKey == [n |-> Zeros(N_SIZE_IN_BYTES), e |-> Zeros(E_SIZE_IN_BYTES)]

\* the destination size and the count of the modulus copy
ModulusDestSize == E_SIZE_IN_BYTES
ModulusCount == N_SIZE_IN_BYTES

\* the trusted return code left unchecked
CallFailed_status_only(sgx_status, retval) == SGX_SUCCESS # sgx_status

\* (SGX_SUCCESS != sgx_status) || (0 != retval)
CallFailed(sgx_status, retval) == (SGX_SUCCESS # sgx_status) \/ (0 # retval)

\* get_public_key(eid, pp_key, p_key_size), run to completion.  pp_key,
\* p_key_size: the caller's output variables before the call; ecall, gen,
\* alloc, fill: the outcomes of the boundary call, of key generation and
\* of malloc.
get_public_key(g, created, pp_key, p_key_size, ecall, gen, alloc, fill) ==
    LET entered == (ecall = SGX_SUCCESS)
        r == enclave_create_pubkey(g, created, BridgeKey, gen)
        base == [g |-> IF entered THEN r.g ELSE g,
                 created |-> IF entered THEN r.created ELSE created,
                 entered |-> entered,
                 gen_calls |-> IF entered THEN r.gen_calls ELSE 0,
                 gen_ok |-> IF entered THEN r.gen_ok ELSE 0,
                 retval |-> IF entered THEN r.status ELSE SGX_SUCCESS,
                 rsa_key |-> IF entered THEN r.key ELSE BridgeKey]
    IN  IF CallFailed(ecall, base.retval)
        THEN [ret |-> -1, pp_key |-> pp_key, p_key_size |-> p_key_size,
              allocated |-> FALSE] @@ base
        ELSE
        LET buf == malloc(N_SIZE_IN_BYTES + E_SIZE_IN_BYTES, alloc, fill)
        IN  IF buf.null
            THEN [ret |-> -1, pp_key |-> buf, p_key_size |-> p_key_size,
                  allocated |-> FALSE] @@ base
            ELSE
        LET c1 == memcpy_s(buf.bytes, 0, E_SIZE_IN_BYTES, Ptr(r.key.e), E_SIZE_IN_BYTES)
            c2 == memcpy_s(c1.buf, E_SIZE_IN_BYTES, ModulusDestSize,
                           Ptr(r.key.n), ModulusCount)
        IN  [ret |-> 0, pp_key |-> Ptr(c2.buf),
             p_key_size |-> E_SIZE_IN_BYTES + N_SIZE_IN_BYTES,
             allocated |-> TRUE] @@ base

\* ------------------------------------------------------------ the inputs
\* byte values the callers put into a nonce
NonceBytes == {0, 255}

RECURSIVE SeqsOfLen(_, _)
SeqsOfLen(S, len) ==
    IF len = 0 THEN {<<>>}
    ELSE {<<b>> \o t : b \in S, t \in SeqsOfLen(S, len - 1)}

\* nonce lengths the callers use: the empty nonce and the longest one
NonceSizes == {0, MaxNonceSize}

\* (nonce, nonce_size) as the trusted function receives them: nonce_size
\* bytes, or a null nonce with a nonce_size of its own
NonceInputs ==
    {[nonce |-> Ptr(b), nonce_size |-> U32Of(Len(b))] :
        b \in UNION {SeqsOfLen(NonceBytes, len) : len \in NonceSizes}}
      \cup {[nonce |-> NullPtr, nonce_size |-> U32Of(len)] : len \in NonceSizes}
      \cup {[nonce |-> NullPtr, nonce_size |-> U32Max]}

Targets == {"qe3"}
PrimitiveOutcomes == {SGX_SUCCESS} \cup PrimitiveFailCodes

\* what malloc, sgx_sha256_msg and sgx_create_report do in one call of
\* enclave_create_report; the outcome of a primitive that an earlier failure
\* keeps from running is fixed, since nothing reads it
ReportOutcomes ==
    {o \in [alloc : BOOLEAN, fill : Garbage, hash : PrimitiveOutcomes,
            rep : PrimitiveOutcomes] :
        /\ ~o.alloc => (o.fill = 170 /\ o.hash = SGX_SUCCESS /\ o.rep = SGX_SUCCESS)
        /\ o.hash # SGX_SUCCESS => o.rep = SGX_SUCCESS}

\* what a write past the end of a heap allocation leads to: the enclave
\* faults and is lost, or the call runs on
OverrunOutcomes(overrun) == IF overrun THEN {"fault", "return"} ELSE {"return"}

\* what the boundary call, key generation and malloc do in one call of
\* get_public_key, fixed in the same way
GetKeyOutcomes ==
    {o \in [ecall : EcallOutcomes, gen : GenOutcomes, alloc : BOOLEAN, fill : Garbage] :
        /\ o.ecall # SGX_SUCCESS => (o.gen.ok /\ o.gen.k = 1)
        /\ (o.ecall # SGX_SUCCESS \/ ~o.gen.ok) => o.alloc
        /\ ~o.alloc => o.fill = 170}

VARIABLES
    g_rsa_key,          \* static rsa_params_t g_rsa_key
    key_pair_created,   \* static bool key_pair_created
    key,                \* the record a direct caller of enclave_create_pubkey supplies
    p_report,           \* the report structure the caller of enclave_create_report supplies
    pp_key,             \* *pp_key of the caller of get_public_key
    p_key_size,         \* *p_key_size of the caller of get_public_key
    live,               \* public key buffers allocated and not yet freed
    calls,              \* entry-point calls made so far
    last,               \* what the latest call did: [op, status, obs]
    gen_invoked,        \* invocations of the generation primitive so far
    gen_success,        \* successful generation events so far
    returned,           \* key records handed out by successful pubkey calls
    reports,            \* (nonce, key bytes, digest) of the reports generated with a key
    th,                 \* the concurrent callers: [pc, key, status, k, pdata] of each
    enclave_crashed     \* the enclave has faulted and takes no more calls

vars == <<g_rsa_key, key_pair_created, key, p_report, pp_key, p_key_size, live,
          calls, last, gen_invoked, gen_success, returned, reports, th,
          enclave_crashed>>

PublicPart(rec) == [n |-> rec.n, e |-> rec.e]

Threads == 1..NumThreads

Init ==
    /\ g_rsa_key = ZeroKey
    /\ key_pair_created = FALSE
    /\ key = BridgeKey
    /\ p_report = [filled |-> FALSE, target |-> "none", report_data |-> ZeroReportData]
    /\ pp_key = NullPtr
    /\ p_key_size = 0
    /\ live = 0
    /\ calls = 0
    /\ last = [op |-> "none", status |-> SGX_SUCCESS, obs |-> <<>>]
    /\ gen_invoked = 0
    /\ gen_success = 0
    /\ returned = {}
    /\ reports = {}
    /\ th = [t \in Threads |->
                [pc |-> "idle", key |-> BridgeKey, status |-> SGX_SUCCESS, k |-> 0,
                 pdata |-> <<>>]]
    /\ enclave_crashed = FALSE

\* a caller enters enclave_create_pubkey with its own record
EnclaveCreatePubkey ==
    /\ calls < MaxCalls
    /\ ~enclave_crashed
    /\ \E gen \in GenOutcomes :
          \E r \in {enclave_create_pubkey(g_rsa_key, key_pair_created, key, gen)} :
              /\ g_rsa_key' = r.g
              /\ key_pair_created' = r.created
              /\ key' = r.key
              /\ last' = [op |-> "enclave_create_pubkey", status |-> r.status,
                          obs |-> [entered |-> TRUE, gen_calls |-> r.gen_calls,
                                   gen_ok |-> r.gen_ok,
                                   gen_code |-> IF r.gen_calls = 1 THEN gen.code
                                                ELSE SGX_SUCCESS]]
              /\ gen_success' = gen_success + r.gen_ok
              /\ gen_invoked' = gen_invoked + r.gen_calls
              /\ returned' = IF r.status = SGX_SUCCESS
                             THEN returned \cup {PublicPart(r.key)}
                             ELSE returned
    /\ calls' = calls + 1
    /\ UNCHANGED <<p_report, pp_key, p_key_size, live, reports, th, enclave_crashed>>

\* a caller enters enclave_create_report.  A call that writes past the end
\* of pdata either faults, and the enclave is lost with nothing returned,
\* or runs on to its return.
EnclaveCreateReport ==
    /\ calls < MaxCalls
    /\ ~enclave_crashed
    /\ \E in \in NonceInputs, target \in Targets, o \in ReportOutcomes :
          \E r \in {enclave_create_report(g_rsa_key, target, in.nonce, in.nonce_size,
                                           p_report, o.alloc, o.fill, o.hash, o.rep)} :
              \E out \in OverrunOutcomes(r.overrun) :
                  /\ enclave_crashed' = (out = "fault")
                  /\ p_report' = IF out = "fault" THEN p_report ELSE r.p_report
                  /\ last' = [op |-> IF out = "fault" THEN "enclave_fault"
                                     ELSE "enclave_create_report",
                              status |-> r.status,
                              obs |-> [nonce |-> in.nonce.bytes, steps |-> r.steps,
                                       alloc |-> o.alloc, copy_err |-> r.copy_err,
                                       hash_code |-> IF r.hashed THEN o.hash
                                                     ELSE SGX_SUCCESS,
                                       rep_code |-> IF r.reported THEN o.rep
                                                    ELSE SGX_SUCCESS,
                                       hashed |-> r.hashed,
                                       reported |-> r.reported,
                                       report_data |-> r.report_data,
                                       wrapped |-> SizeWraps(in.nonce_size),
                                       overrun |-> r.overrun]]
                  /\ reports' = IF /\ out = "return"
                                   /\ r.reported /\ r.status = SGX_SUCCESS
                                   /\ key_pair_created
                                THEN reports \cup {[nonce |-> in.nonce.bytes, msg |-> r.msg,
                                                    digest |-> r.p_report.report_data.digest]}
                                ELSE reports
    /\ calls' = calls + 1
    /\ UNCHANGED <<g_rsa_key, key_pair_created, key, pp_key, p_key_size, live,
                   gen_invoked, gen_success, returned, th>>

\* the untrusted application calls get_public_key
GetPublicKey ==
    /\ calls < MaxCalls
    /\ \E o \in GetKeyOutcomes :
          /\ enclave_crashed => o.ecall # SGX_SUCCESS
          /\ \E r \in {get_public_key(g_rsa_key, key_pair_created, pp_key, p_key_size,
                                    o.ecall, o.gen, o.alloc, o.fill)} :
              /\ g_rsa_key' = r.g
              /\ key_pair_created' = r.created
              /\ pp_key' = r.pp_key
              /\ p_key_size' = r.p_key_size
              /\ live' = IF r.allocated THEN live + 1 ELSE live
              /\ last' = [op |-> "get_public_key", status |-> r.ret,
                          obs |-> [ecall |-> o.ecall, entered |-> r.entered,
                                   retval |-> r.retval,
                                   alloc |-> o.alloc, allocated |-> r.allocated,
                                   gen_calls |-> r.gen_calls, gen_ok |-> r.gen_ok,
                                   gen_code |-> IF r.gen_calls = 1 THEN o.gen.code
                                                ELSE SGX_SUCCESS]]
              /\ gen_success' = gen_success + r.gen_ok
              /\ gen_invoked' = gen_invoked + r.gen_calls
              /\ returned' = IF r.entered /\ r.ret = 0
                             THEN returned \cup {PublicPart(r.rsa_key)}
                             ELSE returned
    /\ calls' = calls + 1
    /\ UNCHANGED <<key, p_report, reports, th, enclave_crashed>>

\* free_public_key(p_key) on the buffer the caller holds
FreePublicKey ==
    /\ ~pp_key.null
    /\ live > 0
    /\ live' = live - 1
    /\ pp_key' = NullPtr
    /\ UNCHANGED <<g_rsa_key, key_pair_created, key, p_report, p_key_size, calls,
                   last, gen_invoked, gen_success, returned, reports, th,
                   enclave_crashed>>

Next ==
    \/ EnclaveCreatePubkey
    \/ EnclaveCreateReport
    \/ GetPublicKey
    \/ FreePublicKey

Spec == Init /\ [][Next]_vars

\* ------------------------------------------- concurrent entry, no locking
\* Callers that enter enclave_create_pubkey and enclave_create_report at the
\* same time: the functions take no lock, so each access to g_rsa_key and
\* key_pair_created is a step of its own and the steps of the callers
\* interleave.
seqvars == <<key, p_report, pp_key, p_key_size, live, calls, last, reports,
             enclave_crashed>>

Goto(t, pc) == [th EXCEPT ![t].pc = pc]

\* key->e[0] = 0x10001, on the caller's own record
T_StoreKey(t) ==
    /\ th[t].pc = "idle"
    /\ th' = [th EXCEPT ![t].pc = "store", ![t].key = StoreKeyExponent(th[t].key)]
    /\ UNCHANGED <<g_rsa_key, key_pair_created, gen_invoked, gen_success, returned>>
    /\ UNCHANGED seqvars

\* g_rsa_key.e[0] = 0x10001
T_StoreCache(t) ==
    /\ th[t].pc = "store"
    /\ g_rsa_key' = StoreCacheExponent(g_rsa_key)
    /\ th' = Goto(t, "check")
    /\ UNCHANGED <<key_pair_created, gen_invoked, gen_success, returned>>
    /\ UNCHANGED seqvars

\* if (!key_pair_created)
T_Check(t) ==
    /\ th[t].pc = "check"
    /\ th' = Goto(t, IF NeedGenerate(key_pair_created) THEN "generate" ELSE "copy_n")
    /\ UNCHANGED <<g_rsa_key, key_pair_created, gen_invoked, gen_success, returned>>
    /\ UNCHANGED seqvars

\* the bytes of the modulus that one write of the primitive covers first
ModulusHead == N_SIZE_IN_BYTES \div 2

\* sgx_create_rsa_key_pair: it fails and the call returns its code, or it
\* computes a key pair and starts writing it out with the head of the modulus
T_Generate(t) ==
    /\ th[t].pc = "generate"
    /\ \E gen \in GenOutcomes :
          \E r \in {sgx_create_rsa_key_pair(g_rsa_key, gen)} :
             IF r.status # SGX_SUCCESS
             THEN /\ th' = [th EXCEPT ![t].pc = "done",
                                      ![t].status = GenFailureStatus(r.status)]
                  /\ UNCHANGED g_rsa_key
             ELSE /\ th' = [th EXCEPT ![t].pc = "write_n", ![t].k = r.rec.d]
                  /\ g_rsa_key' = [g_rsa_key EXCEPT !.n =
                                      [i \in 1..N_SIZE_IN_BYTES |->
                                          IF i <= ModulusHead THEN r.rec.n[i]
                                          ELSE g_rsa_key.n[i]]]
    /\ gen_invoked' = gen_invoked + 1
    /\ UNCHANGED <<key_pair_created, gen_success, returned>>
    /\ UNCHANGED seqvars

\* the primitive writes the rest of the modulus
T_GenerateWriteN(t) ==
    /\ th[t].pc = "write_n"
    /\ g_rsa_key' = [g_rsa_key EXCEPT !.n =
                        [i \in 1..N_SIZE_IN_BYTES |->
                            IF i <= ModulusHead THEN g_rsa_key.n[i]
                            ELSE ModulusOf(th[t].k)[i]]]
    /\ th' = Goto(t, "write_d")
    /\ UNCHANGED <<key_pair_created, gen_invoked, gen_success, returned>>
    /\ UNCHANGED seqvars

\* the primitive writes the private fields and returns SGX_SUCCESS
T_GenerateWriteD(t) ==
    /\ th[t].pc = "write_d"
    /\ g_rsa_key' = [g_rsa_key EXCEPT !.d = th[t].k]
    /\ gen_success' = gen_success + 1
    /\ th' = Goto(t, "set")
    /\ UNCHANGED <<key_pair_created, gen_invoked, returned>>
    /\ UNCHANGED seqvars

\* key_pair_created = true
T_SetCreated(t) ==
    /\ th[t].pc = "set"
    /\ key_pair_created' = MarkCreated
    /\ th' = Goto(t, "copy_n")
    /\ UNCHANGED <<g_rsa_key, gen_invoked, gen_success, returned>>
    /\ UNCHANGED seqvars

\* the loop key->n[i] = g_rsa_key.n[i]
T_CopyN(t) ==
    /\ th[t].pc = "copy_n"
    /\ th' = [th EXCEPT ![t].pc = "copy_e",
                        ![t].key.n = CopyOut(th[t].key, g_rsa_key).n]
    /\ UNCHANGED <<g_rsa_key, key_pair_created, gen_invoked, gen_success, returned>>
    /\ UNCHANGED seqvars

\* the loop key->e[i] = g_rsa_key.e[i], and return SGX_SUCCESS
T_CopyE(t) ==
    /\ th[t].pc = "copy_e"
    /\ \E k \in {[th[t].key EXCEPT !.e = CopyOut(th[t].key, g_rsa_key).e]} :
          /\ th' = [th EXCEPT ![t].pc = "done", ![t].key = k,
                              ![t].status = SGX_SUCCESS]
          /\ returned' = returned \cup {PublicPart(k)}
    /\ UNCHANGED <<g_rsa_key, key_pair_created, gen_invoked, gen_success>>
    /\ UNCHANGED seqvars

\* enclave_create_report with an empty nonce, up to and including
\* memcpy_s(pdata + nonce_size, E_SIZE_IN_BYTES, g_rsa_key.e, E_SIZE_IN_BYTES)
R_CopyE(t) ==
    /\ th[t].pc = "idle"
    /\ \E fill \in Garbage :
          \E c \in {memcpy_s(malloc(U32Int(ScratchSize(U32Of(0))), TRUE, fill).bytes,
                              ExponentOffset(0), E_SIZE_IN_BYTES,
                              ExponentSource(g_rsa_key), E_SIZE_IN_BYTES)} :
              th' = [th EXCEPT ![t].pc = "r_copy_n", ![t].pdata = c.buf]
    /\ UNCHANGED <<g_rsa_key, key_pair_created, gen_invoked, gen_success, returned>>
    /\ UNCHANGED seqvars

\* memcpy_s(pdata + nonce_size + E_SIZE_IN_BYTES, N_SIZE_IN_BYTES,
\* g_rsa_key.n, N_SIZE_IN_BYTES), and the rest of the call, which works on
\* pdata alone: the bytes hashed are those pdata holds now
R_CopyN(t) ==
    /\ th[t].pc = "r_copy_n"
    /\ \E c \in {memcpy_s(th[t].pdata, ModulusOffset(0), N_SIZE_IN_BYTES,
                          ModulusSource(g_rsa_key), N_SIZE_IN_BYTES)} :
          th' = [th EXCEPT ![t].pc = "r_done", ![t].pdata = c.buf]
    /\ UNCHANGED <<g_rsa_key, key_pair_created, gen_invoked, gen_success, returned>>
    /\ UNCHANGED seqvars

NextConc ==
    \E t \in Threads :
        \/ T_StoreKey(t)
        \/ T_StoreCache(t)
        \/ T_Check(t)
        \/ T_Generate(t)
        \/ T_GenerateWriteN(t)
        \/ T_GenerateWriteD(t)
        \/ T_SetCreated(t)
        \/ T_CopyN(t)
        \/ T_CopyE(t)
        \/ R_CopyE(t)
        \/ R_CopyN(t)

SpecConc == Init /\ [][NextConc]_vars

\* ------------------------------------------------------------ properties
\* the latest call ran enclave_create_pubkey (directly or through the helper)
PubkeyRan == last.op \in {"enclave_create_pubkey", "get_public_key"} /\ last.obs.entered
ReportRan == last.op = "enclave_create_report"
GetKeyRan == last.op = "get_public_key"

\* C1: every successful call of enclave_create_pubkey hands out the same
\* (modulus, exponent) record, and once a key pair has been created no call
\* changes the cached record g_rsa_key
C1_SameKeyEveryCall ==
    [][/\ Cardinality(returned') <= 1
       /\ key_pair_created => g_rsa_key' = g_rsa_key]_vars

\* a successful call served from the cache, after an earlier successful
\* call and a report
C1_Witness ==
    /\ last.op = "enclave_create_pubkey"
    /\ last.status = SGX_SUCCESS
    /\ last.obs.gen_calls = 0
    /\ Cardinality(returned) = 1
    /\ p_report.filled

\* C2: at most one generation ever succeeds; a call made while
\* key_pair_created is false invokes the primitive exactly once, a call
\* made while it is true never invokes it
C2_GenerateOnce ==
    [][/\ gen_success' <= 1
       /\ (calls' # calls /\ PubkeyRan') =>
             last'.obs.gen_calls = (IF key_pair_created THEN 0 ELSE 1)]_vars

\* a failed generation, a later successful one, then a call that skips it
C2_Witness ==
    /\ PubkeyRan
    /\ last.obs.gen_calls = 0
    /\ gen_invoked >= 2
    /\ gen_success = 1

\* C3: when get_public_key returns 0 the buffer is E_SIZE_IN_BYTES +
\* N_SIZE_IN_BYTES long, starts with the cached exponent and continues with
\* the cached modulus
C3_WireFormat ==
    (GetKeyRan /\ last.status = 0) =>
        /\ ~pp_key.null
        /\ p_key_size = E_SIZE_IN_BYTES + N_SIZE_IN_BYTES
        /\ Len(pp_key.bytes) = p_key_size
        /\ SubSeq(pp_key.bytes, 1, E_SIZE_IN_BYTES) = g_rsa_key.e
        /\ SubSeq(pp_key.bytes, E_SIZE_IN_BYTES + 1, p_key_size) = g_rsa_key.n

\* C4: the report data handed to the report primitive is the digest of
\* nonce, cached exponent, cached modulus of this call, in that order,
\* followed by zero bytes
C4_ReportDataIsDigest ==
    [][(calls' # calls /\ ReportRan' /\ last'.obs.reported) =>
          last'.obs.report_data =
              [digest |-> SHA256(last'.obs.nonce \o g_rsa_key.e \o g_rsa_key.n),
               rest |-> Zeros(REPORT_DATA_SIZE - SHA256_HASH_SIZE)]]_vars

\* a report over a generated key and a non-empty nonce, after a report
\* with another nonce
C4_Witness ==
    /\ ReportRan
    /\ last.obs.reported
    /\ key_pair_created
    /\ Len(last.obs.nonce) > 0
    /\ \E r \in reports : r.nonce # last.obs.nonce

\* C5: get_public_key returns -1 exactly when the boundary call fails, the
\* trusted return code is non-zero or the allocation fails, and 0 otherwise;
\* in the first two cases nothing is allocated and the outputs are not written
C5_HelperStatus ==
    [][(calls' # calls /\ GetKeyRan') =>
          LET o == last'.obs
              early == o.ecall # SGX_SUCCESS \/ o.retval # 0
          IN  /\ last'.status = (IF early \/ ~o.alloc THEN -1 ELSE 0)
              /\ early => /\ ~o.allocated
                          /\ live' = live
                          /\ pp_key' = pp_key
                          /\ p_key_size' = p_key_size]_vars

\* a failed boundary call that leaves the outputs of an earlier success alone
C5_Witness ==
    /\ GetKeyRan
    /\ last.status = -1
    /\ last.obs.ecall # SGX_SUCCESS
    /\ ~pp_key.null
    /\ p_key_size = E_SIZE_IN_BYTES + N_SIZE_IN_BYTES

\* the latest call ran enclave_create_pubkey and its generation failed
GenFailed == PubkeyRan /\ last.obs.gen_calls = 1 /\ last.obs.gen_ok = 0

\* C6 as stated: a failed generation returns the primitive's code, leaves
\* key_pair_created false and leaves every field of g_rsa_key as it was
C6_FailureLeavesCache ==
    [][(calls' # calls /\ GenFailed') =>
          /\ last'.obs.gen_code # SGX_SUCCESS
          /\ (last'.op = "enclave_create_pubkey" => last'.status = last'.obs.gen_code)
          /\ key_pair_created' = FALSE
          /\ g_rsa_key' = g_rsa_key]_vars

\* C6 amended: a failed generation returns the primitive's code, leaves
\* key_pair_created false and leaves g_rsa_key as it was but for the
\* exponent word, which is 0x10001 after the call
C6_FailureLeavesCacheButExponent ==
    [][(calls' # calls /\ GenFailed') =>
          /\ last'.obs.gen_code # SGX_SUCCESS
          /\ (last'.op = "enclave_create_pubkey" => last'.status = last'.obs.gen_code)
          /\ (last'.op = "get_public_key" => last'.obs.retval = last'.obs.gen_code)
          /\ key_pair_created' = FALSE
          /\ g_rsa_key'.n = g_rsa_key.n
          /\ g_rsa_key'.d = g_rsa_key.d
          /\ g_rsa_key'.e = ExponentWord]_vars

\* a failed first generation: the cache holds the exponent and no modulus
C6_Witness ==
    /\ GenFailed
    /\ last.status = 3
    /\ ~key_pair_created
    /\ g_rsa_key = [ZeroKey EXCEPT !.e = ExponentWord]

\* C7: enclave_create_report returns SGX_SUCCESS only if the report
\* primitive ran in that call and succeeded
C7_SuccessMeansReport ==
    (ReportRan /\ last.status = SGX_SUCCESS) => last.obs.reported

\* the bytes of a hashed message that come from the key
KeyPart(msg) == SubSeq(msg, Len(msg) - (E_SIZE_IN_BYTES + N_SIZE_IN_BYTES) + 1, Len(msg))

\* C8: two reports generated after the key was created hash the same key
\* bytes, and for different nonces hash different messages and so embed
\* different digests
C8_NonceSeparatesReports ==
    \A r1, r2 \in reports :
        /\ KeyPart(r1.msg) = KeyPart(r2.msg)
        /\ r1.nonce # r2.nonce => (r1.msg # r2.msg /\ r1.digest # r2.digest)

\* two reports over the generated key with different nonces of one length
C8_Witness ==
    \E r1, r2 \in reports :
        /\ r1.nonce # r2.nonce
        /\ Len(r1.nonce) = Len(r2.nonce)
        /\ KeyPart(r1.msg) = g_rsa_key.e \o g_rsa_key.n

\* C9: callers that enter enclave_create_pubkey concurrently before any key
\* exists cause one generation event and all get the same key record
C9_ConcurrentOneGeneration ==
    /\ gen_success <= 1
    /\ Cardinality(returned) <= 1

\* C10: a call of enclave_create_pubkey that returns a failure code leaves
\* the caller's record as it was
C10_FailureLeavesOutput ==
    [][(calls' # calls /\ last'.op = "enclave_create_pubkey"
          /\ last'.status # SGX_SUCCESS) => key' = key]_vars

\* the steps of a call of enclave_create_report, as a set of positions
StepsAt(name) == {i \in 1..Len(last.obs.steps) : last.obs.steps[i] = name}
StepDone(name) == StepsAt(name) # {}

\* C11: when one of the three copies into the scratch buffer fails, the
\* call does not hash, does not generate a report, frees the scratch buffer
\* and returns SGX_ERROR_UNEXPECTED
C11_CopyFailureIsError ==
    (ReportRan /\ last.obs.copy_err # 0) =>
        /\ ~StepDone("hash")
        /\ ~StepDone("report")
        /\ Cardinality(StepsAt("free")) = 1
        /\ last.status = SGX_ERROR_UNEXPECTED
\* C12: on every return path of enclave_create_report a scratch buffer that
\* was allocated is freed exactly once, as the last thing done before the
\* return (no step reads or writes it afterwards); a call whose allocation
\* failed frees nothing
C12_ScratchFreedOnce ==
    ReportRan =>
        IF last.obs.alloc
        THEN StepsAt("free") = {Len(last.obs.steps)}
        ELSE StepsAt("free") = {}

\* a call that allocated, hashed, and left through a failed hash
C12_Witness ==
    /\ ReportRan
    /\ last.obs.alloc
    /\ last.obs.hash_code # SGX_SUCCESS
    /\ StepsAt("free") = {Len(last.obs.steps)}

\* C13: when the scratch allocation fails the call returns SGX_SUCCESS, has
\* copied nothing, hashed nothing, not invoked sgx_create_report, and has
\* left the output report as it was
C13_AllocFailureReturnsSuccess ==
    [][(last'.op = "enclave_create_report" /\ ~last'.obs.alloc) =>
          /\ last'.status = SGX_SUCCESS
          /\ last'.obs.steps = <<"malloc">>
          /\ ~last'.obs.hashed
          /\ ~last'.obs.reported
          /\ p_report' = p_report]_vars

\* an allocation failure met after an earlier call had filled the report
C13_Witness ==
    /\ ReportRan
    /\ ~last.obs.alloc
    /\ last.status = SGX_SUCCESS
    /\ p_report.filled

\* the order of the steps of enclave_create_report
StepOrder == <<"malloc", "copy_nonce", "copy_e", "copy_n", "hash", "fill", "report">>

\* the steps of the last call other than the release of the scratch buffer
WorkSteps == SelectSeq(last.obs.steps, LAMBDA x : x # "free")

\* C14: the steps run in the order copy nonce, copy exponent, copy modulus,
\* hash, fill report data, generate report, each at most once; a failing
\* hash returns its status unchanged without invoking sgx_create_report; a
\* failing sgx_create_report returns its status unchanged
C14_FixedOrderNoRetry ==
    ReportRan =>
        /\ Len(WorkSteps) <= Len(StepOrder)
        /\ WorkSteps = SubSeq(StepOrder, 1, Len(WorkSteps))
        /\ last.obs.hash_code # SGX_SUCCESS =>
              /\ last.status = last.obs.hash_code
              /\ ~StepDone("report")
              /\ ~last.obs.reported
        /\ last.obs.rep_code # SGX_SUCCESS =>
              /\ last.status = last.obs.rep_code
              /\ Cardinality(StepsAt("report")) = 1

\* a hash failure with a code other than the unexpected-error code
C14_Witness ==
    /\ ReportRan
    /\ last.obs.hash_code \in PrimitiveFailCodes \ {SGX_ERROR_UNEXPECTED}
    /\ last.status = last.obs.hash_code
    /\ StepDone("hash")
\* C15: whenever enclave_create_report hashes the cached exponent and
\* modulus, key_pair_created is true: the hashed record is never the
\* zero-initialised one nor one left behind by a failed generation
C15_HashOnlyCreatedKey ==
    (ReportRan /\ last.obs.hashed) => key_pair_created
\* C16: for every 32-bit nonce_size the scratch size computed in uint32_t
\* is the mathematical sum nonce_size + E_SIZE_IN_BYTES + N_SIZE_IN_BYTES
\* (it does not wrap), and so no copy writes outside the scratch buffer
C16_SizeIsExactSum ==
    last.op \in {"enclave_create_report", "enclave_fault"} =>
        /\ ~last.obs.wrapped
        /\ ~last.obs.overrun
\* the callers that have run enclave_create_report to its end, and the
\* callers still inside enclave_create_pubkey
ReportDone == {t \in Threads : th[t].pc = "r_done"}
PubkeyBusy == {t \in Threads : th[t].pc \notin {"idle", "done", "r_copy_n", "r_done"}}

\* C17: an enclave_create_report that runs concurrently with a first-time
\* enclave_create_pubkey hashes either the (exponent, modulus) pair that the
\* generation ends up caching, whole, or no key at all (no modulus byte
\* written); never a record that a generation in progress has partly written
C17_ReportSeesWholeKeyOrNone ==
    (ReportDone # {} /\ PubkeyBusy = {} /\ gen_success <= 1) =>
        \A t \in ReportDone :
            \/ KeyPart(th[t].pdata) = g_rsa_key.e \o g_rsa_key.n
            \/ SubSeq(th[t].pdata, E_SIZE_IN_BYTES + 1, Len(th[t].pdata))
                  = Zeros(N_SIZE_IN_BYTES)
====
